---------------------------- MODULE Spec2Model ----------------------------
(***************************************************************************)
(* Model of the RLD manager (src/RLD_manager.py) of the lifetime-imaging   *)
(* instrument: the acquisition run of one RLD object against a triggered   *)
(* camera and a serial controller, the lifetime computation, and the       *)
(* settings-file parser; and of the main window (src/main.py) that drives  *)
(* it.                                                                     *)
(*                                                                         *)
(* Seven specifications share the variables:                               *)
(*   Spec          one RLD object driven through attach_hardware, run and  *)
(*                 calculate_average_lifetime, one hardware call per step;  *)
(*   SpecLifetime  the static method calculate_lifetime applied to inputs  *)
(*                 drawn from bounded sets;                                *)
(*   SpecSettings  load_settings_from_file applied to files drawn from a   *)
(*                 bounded set, the files save_settings writes included;   *)
(*   SpecSnap      the three grid validators of the delay spin boxes;      *)
(*   SpecFolder    save_measurement and load_images_from_folder on one     *)
(*                 data folder;                                            *)
(*   SpecGui       the handlers of the main window on the session list.    *)
(*   SpecUsb       the USB watcher (src/usb_watcher.py), its callbacks in  *)
(*                 the monitor thread and the window's handler of them.    *)
(*                                                                         *)
(* Numbers.  Integer parameters are integers.  Float parameters (delays,   *)
(* pulse width) are counted in ticks of 1/TicksPerUs microseconds.  Pixel   *)
(* averages are exact rationals n/d.  float64 rounding is not modelled:    *)
(* the sums of 16-bit pixels are exact in float64 and a correctly rounded  *)
(* quotient keeps the sign and the order relative to 1 of the exact one,   *)
(* which is all the NaN masks of calculate_lifetime look at.               *)
(***************************************************************************)
EXTENDS Integers, Sequences, FiniteSets, TLC

\* ------------------------------------------------------------------ bounds
\* largest sets_to_acquire a run is started with; largest denominator of a
\* pixel average
MaxSets == 2
\* largest raw pixel value
MaxPix == 2
\* run() invocations that reach the hardware in one behaviour
MaxRuns == 2
\* keys of a settings file that deviate from a complete, well-typed file
MaxDefects == 2

\* ticks per microsecond: the grid step 0.0625 us (main.py) is four ticks and
\* its half 0.03125 us two, so that a value can lie on either side of the half
TicksPerUs == 64

Keys == <<"window1", "window2", "dark">>

Abs(x) == IF x < 0 THEN -x ELSE x

RECURSIVE GCD(_, _)
GCD(a, b) == IF b = 0 THEN a ELSE GCD(b, a % b)

\* --------------------------------------------------------- float64 values
\* k = "fin" : the rational n/d (d > 0, lowest terms)
\* k = "nan", "pinf", "ninf"
\* k = "ln"  : ln(n/d), n/d > 0 and n # d
\* k = "quot": (dt ticks) / ln(n/d), dt # 0
NaN == [k |-> "nan", n |-> 0, d |-> 1, dt |-> 0]
PInf == [k |-> "pinf", n |-> 0, d |-> 1, dt |-> 0]
NInf == [k |-> "ninf", n |-> 0, d |-> 1, dt |-> 0]

Fin(n, d) ==
    LET s == IF d < 0 THEN -1 ELSE 1
        g == GCD(Abs(n), Abs(d))
    IN  [k |-> "fin", n |-> (s * n) \div g, d |-> (s * d) \div g, dt |-> 0]

Ln(n, d) == [k |-> "ln", n |-> n, d |-> d, dt |-> 0]

Quot(t, n, d) == [k |-> "quot", n |-> n, d |-> d, dt |-> t]

\* -1, 0, 1; NaN has no sign (every comparison with it is False)
Sign(x) ==
    CASE x.k = "fin" -> (IF x.n > 0 THEN 1 ELSE IF x.n < 0 THEN -1 ELSE 0)
      [] x.k = "pinf" -> 1
      [] x.k = "ninf" -> -1
      [] x.k = "ln" -> (IF x.n > x.d THEN 1 ELSE -1)
      [] x.k = "quot" -> (IF x.dt > 0 THEN 1 ELSE -1) * (IF x.n > x.d THEN 1 ELSE -1)
      [] OTHER -> 0

IsNaN(x) == x.k = "nan"
IsInf(x) == x.k \in {"pinf", "ninf"}
IsFinite(x) == x.k \in {"fin", "ln", "quot"}
IsZero(x) == x.k = "fin" /\ x.n = 0
IsNegative(x) == ~IsNaN(x) /\ Sign(x) < 0

\* x - y on floats that are rationals, NaN or infinities
FSub(x, y) ==
    CASE IsNaN(x) \/ IsNaN(y) -> NaN
      [] x.k = "fin" /\ y.k = "fin" -> Fin(x.n * y.d - y.n * x.d, x.d * y.d)
      [] IsInf(x) /\ IsInf(y) -> (IF x.k = y.k THEN NaN ELSE x)
      [] IsInf(x) -> x
      [] OTHER -> (IF y.k = "pinf" THEN NInf ELSE PInf)

\* x / y, numpy true division: a division by zero gives +-inf or NaN
FDiv(x, y) ==
    CASE IsNaN(x) \/ IsNaN(y) -> NaN
      [] IsInf(x) /\ IsInf(y) -> NaN
      [] IsInf(y) -> Fin(0, 1)
      [] IsInf(x) -> (IF Sign(x) * (IF Sign(y) < 0 THEN -1 ELSE 1) > 0 THEN PInf ELSE NInf)
      [] IsZero(y) -> (IF Sign(x) > 0 THEN PInf ELSE IF Sign(x) < 0 THEN NInf ELSE NaN)
      [] OTHER -> Fin(x.n * y.d, x.d * y.n)

\* numpy.log
FLog(x) ==
    CASE IsNaN(x) -> NaN
      [] x.k = "pinf" -> PInf
      [] x.k = "ninf" -> NaN
      [] Sign(x) < 0 -> NaN
      [] IsZero(x) -> NInf
      [] x.n = x.d -> Fin(0, 1)
      [] OTHER -> Ln(x.n, x.d)

\* delta_t / y, delta_t a Python float given in ticks
FDivDelta(t, y) ==
    CASE IsNaN(y) -> NaN
      [] IsInf(y) -> Fin(0, 1)
      [] IsZero(y) -> (IF t > 0 THEN PInf ELSE IF t < 0 THEN NInf ELSE NaN)
      [] y.k = "fin" -> Fin(t * y.d, y.n)
      [] t = 0 -> Fin(0, 1)
      [] OTHER -> Quot(t, y.n, y.d)

\* ------------------------------------------------------------ numpy values
\* An ndarray is [scalar |-> FALSE, a |-> <<float, ...>>]; a 0-d result (the
\* numpy.float64 that arithmetic on 0-d arrays returns) is
\* [scalar |-> TRUE, a |-> <<float>>].
Arr(a) == [scalar |-> FALSE, a |-> a]
Scalar(x) == [scalar |-> TRUE, a |-> <<x>>]

\* elementwise x - y with broadcasting of a scalar
NpSub(x, y) ==
    IF x.scalar /\ y.scalar THEN Scalar(FSub(x.a[1], y.a[1]))
    ELSE IF x.scalar THEN Arr([i \in DOMAIN y.a |-> FSub(x.a[1], y.a[i])])
    ELSE IF y.scalar THEN Arr([i \in DOMAIN x.a |-> FSub(x.a[i], y.a[1])])
    ELSE Arr([i \in DOMAIN x.a |-> FSub(x.a[i], y.a[i])])

RECURSIVE PixelSum(_, _, _)
PixelSum(stack, i, n) ==
    IF n = 0 THEN 0 ELSE stack[n].px[i] + PixelSum(stack, i, n - 1)

\* numpy.average(stack, axis=0): the elementwise mean of the images; of an
\* empty list it is the scalar NaN (mean of an empty slice, a warning only)
NpAverage(stack) ==
    IF stack = <<>> THEN Scalar(NaN)
    ELSE Arr([i \in DOMAIN stack[1].px |-> Fin(PixelSum(stack, i, Len(stack)), Len(stack))])


NpDiv(x, y) == Arr([i \in DOMAIN x.a |-> FDiv(x.a[i], y.a[i])])

NpLog(x) == Arr([i \in DOMAIN x.a |-> FLog(x.a[i])])

\* ------------------------------------------------------- post-processing
\* arr_copy[arr_copy < 0] = nan
arr_replace_negatives_by_nan_identity(arr) == arr

arr_replace_negatives_by_nan(arr) ==
    Arr([i \in DOMAIN arr.a |-> IF IsNegative(arr.a[i]) THEN NaN ELSE arr.a[i]])

\* arr_copy[arr_copy == 0] = nan
arr_replace_zeroes_by_nan_identity(arr) == arr

arr_replace_zeroes_by_nan(arr) ==
    Arr([i \in DOMAIN arr.a |-> IF IsZero(arr.a[i]) THEN NaN ELSE arr.a[i]])

\* the item assignment of both replace helpers raises TypeError on a
\* numpy.float64 (np.copy(x) * 1.0 of a 0-d value is a scalar, not an array)
RaisesTypeError(arr_window1, arr_window2) == arr_window1.scalar \/ arr_window2.scalar

\* window2 / window1 instead of window1 / window2
calculate_lifetime_swapped(delta_t, arr_window1, arr_window2) ==
    LET ratio == NpDiv(arr_replace_zeroes_by_nan(arr_window2),
                       arr_replace_zeroes_by_nan(arr_window1))
        masked == arr_replace_negatives_by_nan(arr_replace_zeroes_by_nan(NpLog(ratio)))
    IN  Arr([i \in DOMAIN masked.a |-> FDivDelta(delta_t, masked.a[i])])

\* delta_t / neg_to_nan(zero_to_nan(log(zero_to_nan(w1) / zero_to_nan(w2))))
calculate_lifetime(delta_t, arr_window1, arr_window2) ==
    LET ratio == NpDiv(arr_replace_zeroes_by_nan(arr_window1),
                       arr_replace_zeroes_by_nan(arr_window2))
        masked == arr_replace_negatives_by_nan(arr_replace_zeroes_by_nan(NpLog(ratio)))
    IN  Arr([i \in DOMAIN masked.a |-> FDivDelta(delta_t, masked.a[i])])

\* the three locals of calculate_average_lifetime
DeltaT(p) == p.delay_window2_us - p.delay_window1_us
DarkAvg(dict) == NpAverage(dict.dark)
Window1Avg(dict) == NpSub(NpAverage(dict.window1), DarkAvg(dict))
Window2Avg(dict) == NpSub(NpAverage(dict.window2), DarkAvg(dict))

\* an optional lifetime map: None, or an ndarray
NoMap == [some |-> FALSE, v |-> Arr(<<>>)]
SomeMap(m) == [some |-> TRUE, v |-> m]

\* ------------------------------------------------------------------ state
VARIABLES
    \* the RLD object
    camera,                 \* "None" or "cam"
    serial_connection,      \* "None" or "ser"
    params,                 \* ImagingParameters
    image_dict,             \* window1 / window2 / dark -> sequence of images
    image_start_time_dict,  \* window1 / window2 / dark -> sequence of timestamps
    average_lifetime,       \* NoMap or SomeMap(ndarray)
    \* the call in progress
    pc,                     \* position inside run(); "idle" between calls
    current_set,            \* acquire_images: current_set
    key_i,                  \* acquire_images: index into Keys of the for loop
    result,                 \* what the last call returned or raised
    \* the hardware
    hw_log,                 \* camera and serial calls of the current run()
    serial_out,             \* the bytes of the latest serial_connection.write
    cam_acquiring,          \* between start_acquisition and stop_acquisition
    cam_clock,              \* the camera's internal clock
    is_color,               \* camera.is_iscolor()
    scene,                  \* window -> pixel value the sensor sees
    runs,                   \* run() invocations that reached the hardware
    \* a direct call of the static method calculate_lifetime
    args,
    ret,
    \* the file at config_path
    config_file,
    \* the data folder: the files os.listdir returns, in its order
    folder,
    \* the main window
    ui,                     \* the values of the eight parameter spin boxes
    edit,                   \* the spin box edited last, the value typed into
                            \* it, and whether the editing is still open
    heap,                   \* the RLD objects created by the window, in order
    rld,                    \* self.rld: index into heap
    rld_list,               \* self.rld_list: sequence of indexes into heap
    cb_index,               \* select_measurement_cb.currentIndex(), -1 if empty
    \* the USB watcher of the main window
    usb_watcher,            \* controllers, cameras and the two counters
    monitor,                \* self._monitor: the devices on the bus, the devices
                            \* it has reported, and the callback in progress
    events                  \* usb_event signals queued for the GUI thread

vars == <<camera, serial_connection, params, image_dict, image_start_time_dict,
          average_lifetime, pc, current_set, key_i, result, hw_log, cam_acquiring,
          cam_clock, is_color, scene, runs, args, ret, config_file, folder,
          ui, edit, heap, rld, rld_list, cb_index, serial_out,
          usb_watcher, monitor, events>>

gui_vars == <<ui, edit, heap, rld, rld_list, cb_index>>

rld_vars == <<camera, serial_connection, params, image_dict, image_start_time_dict,
              average_lifetime>>

\* ImagingParameters(): the dataclass defaults; 2.5, 22.5 and 40.0 us in ticks
DefaultParams ==
    [sets_to_acquire |-> 3, exposure_time_us |-> 20,
     delay_window1_us |-> 160, delay_window2_us |-> 1440, pulse_width_us |-> 2560,
     exposures_per_frame |-> 10, end_delay_us |-> 33, light_intensity |-> 100]

EmptyDict == [window1 |-> <<>>, window2 |-> <<>>, dark |-> <<>>]

Op(name, key) == [op |-> name, key |-> key]

\* the values the other specifications leave untouched
NoArgs == [delta_t |-> 0, arr_window1 |-> Arr(<<>>), arr_window2 |-> Arr(<<>>)]
Fields ==
    {"sets_to_acquire", "exposure_time_us", "delay_window1_us", "delay_window2_us",
     "pulse_width_us", "exposures_per_frame", "end_delay_us", "light_intensity"}
FloatFields == {"delay_window1_us", "delay_window2_us", "pulse_width_us"}
\* the text a settings file holds under a key: t = "absent" (no such key),
\* "int" (the decimal digits of the integer v), "float" (a decimal with a
\* point, of value v ticks) or "junk" (not a number)
Text(t, v) == [t |-> t, v |-> v]
Absent == Text("absent", 0)
NoFile == [kind |-> "missing", sections |-> {}, vals |-> [f \in Fields |-> Absent]]

NoEdit == [sb |-> "none", typed |-> 0, open |-> FALSE]

\* no main window and no data folder
NoGui ==
    /\ folder = <<>>
    /\ ui = DefaultParams
    /\ edit = NoEdit
    /\ heap = <<>>
    /\ rld = 0
    /\ rld_list = <<>>
    /\ cb_index = -1

\* no USB watcher: nothing registered, nothing on the bus, no signal queued
NoUsb ==
    /\ usb_watcher = [controllers |-> {}, cameras |-> {},
                      number_of_controllers |-> 0, number_of_cameras |-> 0]
    /\ monitor = [devices |-> {}, last |-> {}, running |-> FALSE, plugs |-> 0,
                  cb |-> <<>>]
    /\ events = <<>>

\* RLD.__init__
NewRLD ==
    /\ camera = "None"
    /\ serial_connection = "None"
    /\ image_dict = EmptyDict
    /\ average_lifetime = NoMap
    /\ params = DefaultParams
    /\ image_start_time_dict = EmptyDict

\* the parameter sets a caller stores in rld.params before a run: the delays
\* (in ticks) 2.5 and 22.5 us in either order
DelayPairs == {<<160, 1440>>, <<1440, 160>>}

ParamChoices ==
    {[DefaultParams EXCEPT !.sets_to_acquire = n,
                           !.delay_window1_us = dp[1],
                           !.delay_window2_us = dp[2]] :
        n \in 0..MaxSets, dp \in DelayPairs}

\* what the sensor delivers for the three windows, one pixel per frame: a
\* decaying signal, an inverted one, and a signal that equals the dark level
\* in window2
Scenes ==
    {[window1 |-> 2, window2 |-> 1, dark |-> 0],
     [window1 |-> 1, window2 |-> 2, dark |-> 0],
     [window1 |-> 2, window2 |-> 1, dark |-> 1]}

Init ==
    /\ NewRLD
    /\ pc = "idle"
    /\ current_set = 0
    /\ key_i = 1
    /\ result = "none"
    /\ hw_log = <<>>
    /\ serial_out = <<>>
    /\ cam_acquiring = FALSE
    /\ cam_clock = 0
    /\ is_color \in BOOLEAN
    /\ scene \in Scenes
    \* a colour camera is tried on the decaying scene only
    /\ is_color => (scene.dark = 0 /\ scene.window1 > scene.window2)
    /\ runs = 0
    /\ args = NoArgs
    /\ ret = NoMap
    /\ config_file = NoFile
    /\ NoGui
    /\ NoUsb

hw_unchanged == UNCHANGED <<cam_acquiring, cam_clock, is_color, scene, serial_out>>
other_unchanged ==
    /\ UNCHANGED <<args, ret, config_file, folder>>
    /\ UNCHANGED gui_vars
    /\ UNCHANGED <<usb_watcher, monitor, events>>

\* ------------------------------------------------------- active imaging
\* attach_hardware(camera, serial): a None argument leaves the handle as is
AttachHardware ==
    /\ pc = "idle"
    /\ \E c \in {"None", "cam"}, s \in {"None", "ser"} :
          /\ camera' = IF c # "None" THEN c ELSE camera
          /\ serial_connection' = IF s # "None" THEN s ELSE serial_connection
    /\ UNCHANGED <<params, image_dict, image_start_time_dict, average_lifetime,
                   pc, current_set, key_i, result, hw_log, runs>>
    /\ hw_unchanged /\ other_unchanged

\* rld.params = params (extract_gui_inputs, or a direct assignment)
SetParams ==
    /\ pc = "idle"
    /\ \E p \in ParamChoices : params' = p
    /\ UNCHANGED <<camera, serial_connection, image_dict, image_start_time_dict,
                   average_lifetime, pc, current_set, key_i, result, hw_log, runs>>
    /\ hw_unchanged /\ other_unchanged

\* the guard of run() with "and" in place of "or"
NotReady_and == serial_connection = "None" /\ camera = "None"

\* run(), line 155: serial_connection is None or camera is None
NotReady == serial_connection = "None" \/ camera = "None"

\* run() up to and including init_camera()
Run ==
    /\ pc = "idle"
    /\ IF NotReady
       THEN /\ result' = "-1"
            /\ UNCHANGED <<pc, hw_log, runs>>
       ELSE /\ runs < MaxRuns
            /\ params.sets_to_acquire <= MaxSets
            /\ result' = "running"
            /\ hw_log' = <<Op("init_camera", "-")>>
            /\ pc' = "init_rld_controller"
            /\ runs' = runs + 1
    /\ UNCHANGED <<current_set, key_i>>
    /\ UNCHANGED rld_vars
    /\ hw_unchanged /\ other_unchanged

\* the pieces of a command string: a character, or a number as the f-string
\* formats it (an int as its digits, a float as a decimal of v ticks)
Ch(c) == [c |-> c, v |-> 0]
IntStr(n) == [c |-> "int", v |-> n]
FloatStr(x) == [c |-> "float", v |-> x]

\* 0.75 us in ticks
Skew == (3 * TicksPerUs) \div 4
\* the indentation of the continuation line of the f-string, which lies
\* inside the string literal
Indent == 8

\* b"A\n", the start command of acquire_images
start_str == <<Ch("A"), Ch("\n")>>

\* settings_str of init_rld_controller, lines 118-119
settings_str(p) ==
    <<Ch("R"), Ch(","), IntStr(p.exposure_time_us), Ch(","),
      FloatStr(p.delay_window1_us - Skew + p.pulse_width_us), Ch(","),
      FloatStr(p.delay_window2_us - Skew + p.pulse_width_us), Ch(","),
      IntStr(p.exposures_per_frame), Ch(",")>>
    \o [i \in 1..Indent |-> Ch(" ")]
    \o <<IntStr(p.light_intensity), Ch(","), FloatStr(p.pulse_width_us), Ch(","),
         IntStr(p.end_delay_us), Ch(","), IntStr(p.sets_to_acquire), Ch("\n")>>

\* init_rld_controller(): serial_connection.write(settings_str.encode())
InitRldController ==
    /\ pc = "init_rld_controller"
    /\ hw_log' = Append(hw_log, Op("write_R", "-"))
    /\ serial_out' = settings_str(params)
    /\ pc' = "acquire_images"
    /\ UNCHANGED <<current_set, key_i, result, runs>>
    /\ UNCHANGED rld_vars
    /\ UNCHANGED <<cam_acquiring, cam_clock, is_color, scene>>
    /\ other_unchanged

\* the loop test of acquire_images: another pull, or the end of the loop
AfterLoopTest(set) == IF set < params.sets_to_acquire THEN "get_image" ELSE "stop_acquisition"

\* acquire_images() with the start command written before start_acquisition()
AcquireStart_A_first ==
    /\ pc = "acquire_images"
    /\ cam_acquiring' = TRUE
    /\ hw_log' = hw_log \o <<Op("write_A", "-"), Op("start_acquisition", "-")>>
    /\ serial_out' = start_str
    /\ image_dict' = EmptyDict
    /\ current_set' = 0
    /\ key_i' = 1
    /\ pc' = AfterLoopTest(0)
    /\ UNCHANGED <<camera, serial_connection, params, image_start_time_dict,
                   average_lifetime, result, runs, cam_clock, is_color, scene>>
    /\ other_unchanged

\* acquire_images() without the reset of image_dict
AcquireStart_no_clear ==
    /\ pc = "acquire_images"
    /\ cam_acquiring' = TRUE
    /\ hw_log' = hw_log \o <<Op("start_acquisition", "-"), Op("write_A", "-")>>
    /\ serial_out' = start_str
    /\ current_set' = 0
    /\ key_i' = 1
    /\ pc' = AfterLoopTest(0)
    /\ UNCHANGED <<camera, serial_connection, params, image_dict, image_start_time_dict,
                   average_lifetime, result, runs, cam_clock, is_color, scene>>
    /\ other_unchanged

\* acquire_images(), lines 126-133: start_acquisition, write(b"A\n"), the
\* reset of image_dict, current_set = 0 and the first loop test
AcquireStart ==
    /\ pc = "acquire_images"
    /\ cam_acquiring' = TRUE
    /\ hw_log' = hw_log \o <<Op("start_acquisition", "-"), Op("write_A", "-")>>
    /\ serial_out' = start_str
    /\ image_dict' = EmptyDict
    /\ current_set' = 0
    /\ key_i' = 1
    /\ pc' = AfterLoopTest(0)
    /\ UNCHANGED <<camera, serial_connection, params, image_start_time_dict,
                   average_lifetime, result, runs, cam_clock, is_color, scene>>
    /\ other_unchanged

\* the frame the sensor delivers for a window at camera time t
Frame(key, t) == [ts |-> t, px |-> <<scene[key]>>, fmt |-> "raw"]

\* one pass of the for loop body, lines 135-141: get_image, the timestamp and
\* the image appended under the key, then the next key or the next set
GetImage ==
    /\ pc = "get_image"
    /\ LET key == Keys[key_i]
           t == cam_clock + 1
           last == key_i = Len(Keys)
           set == IF last THEN current_set + 1 ELSE current_set
       IN  /\ cam_clock' = t
           /\ hw_log' = Append(hw_log, Op("get_image", key))
           /\ image_start_time_dict' =
                  [image_start_time_dict EXCEPT ![key] = Append(@, t)]
           /\ image_dict' = [image_dict EXCEPT ![key] = Append(@, Frame(key, t))]
           /\ key_i' = IF last THEN 1 ELSE key_i + 1
           /\ current_set' = set
           /\ pc' = IF last THEN AfterLoopTest(set) ELSE "get_image"
    /\ UNCHANGED <<camera, serial_connection, params, average_lifetime, result, runs,
                   cam_acquiring, is_color, scene, serial_out>>
    /\ other_unchanged

\* camera.get_image raises xiapi.Xi_error (timeout, device lost): nothing in
\* acquire_images, run or image_tau catches it, so the call ends here
GetImageFails ==
    /\ pc = "get_image"
    /\ hw_log' = Append(hw_log, Op("get_image_error", Keys[key_i]))
    /\ result' = "Xi_error"
    /\ pc' = "idle"
    /\ UNCHANGED <<current_set, key_i, runs>>
    /\ UNCHANGED rld_vars
    /\ hw_unchanged /\ other_unchanged

\* A run started while the camera is still acquiring (the previous run ended
\* in a failed pull): the driver may refuse the configuration of init_camera()
\* or the second start_acquisition() with an Xi_error, which ends the call
CameraBusyError ==
    /\ cam_acquiring
    /\ \/ /\ pc = "idle" /\ ~NotReady
          /\ runs < MaxRuns /\ params.sets_to_acquire <= MaxSets
          /\ hw_log' = <<Op("init_camera_error", "-")>>
          /\ runs' = runs + 1
       \/ /\ pc = "acquire_images"
          /\ hw_log' = Append(hw_log, Op("start_acquisition_error", "-"))
          /\ UNCHANGED runs
    /\ result' = "Xi_error"
    /\ pc' = "idle"
    /\ UNCHANGED <<current_set, key_i>>
    /\ UNCHANGED rld_vars
    /\ hw_unchanged /\ other_unchanged

\* acquire_images(), lines 142-145: the loop has ended, stop_acquisition()
StopAcquisition ==
    /\ pc = "stop_acquisition"
    /\ cam_acquiring' = FALSE
    /\ hw_log' = Append(hw_log, Op("stop_acquisition", "-"))
    /\ pc' = "post"
    /\ UNCHANGED <<current_set, key_i, result, runs, cam_clock, is_color, scene,
                   serial_out>>
    /\ UNCHANGED rld_vars
    /\ other_unchanged

\* cv2.cvtColor(img, COLOR_BAYER_BG2RGB): one mosaic plane becomes three
\* colour planes (the interpolation weights are not modelled: each plane
\* repeats the mosaic samples)
cvtColor(img) == [ts |-> img.ts, px |-> img.px \o img.px \o img.px, fmt |-> "rgb"]

Debayer(dict) == [key \in DOMAIN dict |-> [i \in DOMAIN dict[key] |-> cvtColor(dict[key][i])]]

\* calculate_average_lifetime() on the given stacks: the map it stores, or
\* the TypeError it raises before storing anything
LifetimeOf(p, dict) == calculate_lifetime(DeltaT(p), Window1Avg(dict), Window2Avg(dict))
LifetimeRaises(dict) == RaisesTypeError(Window1Avg(dict), Window2Avg(dict))

\* run() with calculate_average_lifetime() called on the raw stacks, before
\* the debayering
RunPost_lifetime_first ==
    /\ pc = "post"
    /\ image_dict' = IF is_color THEN Debayer(image_dict) ELSE image_dict
    /\ IF LifetimeRaises(image_dict)
       THEN /\ result' = "TypeError"
            /\ UNCHANGED average_lifetime
       ELSE /\ result' = "None"
            /\ average_lifetime' = SomeMap(LifetimeOf(params, image_dict))
    /\ pc' = "idle"
    /\ UNCHANGED <<camera, serial_connection, params, image_start_time_dict,
                   current_set, key_i, hw_log, runs>>
    /\ hw_unchanged /\ other_unchanged

\* run(), lines 161-166: debayering for a colour camera, then
\* calculate_average_lifetime(); run() returns None
RunPost ==
    /\ pc = "post"
    /\ LET dict == IF is_color THEN Debayer(image_dict) ELSE image_dict
       IN  /\ image_dict' = dict
           /\ IF LifetimeRaises(dict)
              THEN /\ result' = "TypeError"
                   /\ UNCHANGED average_lifetime
              ELSE /\ result' = "None"
                   /\ average_lifetime' = SomeMap(LifetimeOf(params, dict))
    /\ pc' = "idle"
    /\ UNCHANGED <<camera, serial_connection, params, image_start_time_dict,
                   current_set, key_i, hw_log, runs>>
    /\ hw_unchanged /\ other_unchanged

\* calculate_average_lifetime() that refuses stacks of unequal length
CalculateAverageLifetime_equal_lengths ==
    /\ pc = "idle"
    /\ IF LifetimeRaises(image_dict)
       THEN /\ result' = "TypeError"
            /\ UNCHANGED average_lifetime
       ELSE IF Len(image_dict.window1) # Len(image_dict.dark)
                  \/ Len(image_dict.window2) # Len(image_dict.dark)
            THEN /\ result' = "ValueError"
                 /\ UNCHANGED average_lifetime
            ELSE /\ result' = "None"
                 /\ average_lifetime' = SomeMap(LifetimeOf(params, image_dict))
    /\ UNCHANGED <<camera, serial_connection, params, image_dict, image_start_time_dict,
                   pc, current_set, key_i, hw_log, runs>>
    /\ hw_unchanged /\ other_unchanged

\* calculate_average_lifetime() called on the object directly
CalculateAverageLifetime ==
    /\ pc = "idle"
    /\ IF LifetimeRaises(image_dict)
       THEN /\ result' = "TypeError"
            /\ UNCHANGED average_lifetime
       ELSE /\ result' = "None"
            /\ average_lifetime' = SomeMap(LifetimeOf(params, image_dict))
    /\ UNCHANGED <<camera, serial_connection, params, image_dict, image_start_time_dict,
                   pc, current_set, key_i, hw_log, runs>>
    /\ hw_unchanged /\ other_unchanged

Next ==
    \/ AttachHardware
    \/ SetParams
    \/ Run
    \/ InitRldController
    \/ AcquireStart
    \/ GetImage
    \/ GetImageFails
    \/ CameraBusyError
    \/ StopAcquisition
    \/ RunPost
    \/ CalculateAverageLifetime

Spec == Init /\ [][Next]_vars


\* ------------------------------------------------- SpecLifetime: the static
\* method calculate_lifetime(delta_t, arr_window1, arr_window2) on two-pixel
\* arrays of dark-subtracted averages
WValues == {Fin(n, d) : n \in -MaxPix..MaxPix, d \in 1..MaxSets}

WArrays == {Arr(<<a, b>>) : a \in WValues, b \in WValues}

\* delay_window2_us - delay_window1_us in ticks: -20 us, 0, 20 us
DeltaChoices == {-1280, 0, 1280}

InitLifetime ==
    /\ NewRLD
    /\ pc = "idle"
    /\ current_set = 0
    /\ key_i = 1
    /\ result = "none"
    /\ hw_log = <<>>
    /\ serial_out = <<>>
    /\ cam_acquiring = FALSE
    /\ cam_clock = 0
    /\ is_color = FALSE
    /\ scene \in {s \in Scenes : s.dark = 0 /\ s.window1 > s.window2}
    /\ runs = 0
    /\ args \in [delta_t : DeltaChoices, arr_window1 : WArrays, arr_window2 : WArrays]
    /\ ret = NoMap
    /\ config_file = NoFile
    /\ NoGui
    /\ NoUsb

\* ret = RLD.calculate_lifetime(delta_t, arr_window1, arr_window2)
CallCalculateLifetime ==
    /\ ~ret.some
    /\ ret' = SomeMap(calculate_lifetime(args.delta_t, args.arr_window1, args.arr_window2))
    /\ UNCHANGED <<pc, current_set, key_i, result, hw_log, runs, args, config_file,
                   folder>>
    /\ UNCHANGED rld_vars
    /\ UNCHANGED gui_vars
    /\ UNCHANGED <<usb_watcher, monitor, events>>
    /\ hw_unchanged

NextLifetime == CallCalculateLifetime

SpecLifetime == InitLifetime /\ [][NextLifetime]_vars

\* --------------------------------------------- SpecSettings: settings files
\* A file is missing, malformed (configparser cannot read it), or parsed into
\* sections.  vals gives, per parameter, the text found under that parameter's
\* key in the section load_settings_from_file reads (the legacy section names
\* some keys differently and has no delay_window1_us).  The files tried are
\* built from five kinds of text per key:
\*   "absent"  no such key            "int"    an integer other than -1
\*   "float"   a decimal with a fractional part
\*   "neg1"    the text -1            "junk"   not a number
Tokens == {"absent", "int", "float", "neg1", "junk"}
Sections == {"ImagingParameters", "Settings"}

\* the integer an "int" text holds, per parameter
IntText ==
    [sets_to_acquire |-> 2, exposure_time_us |-> 50, delay_window1_us |-> 5,
     delay_window2_us |-> 30, pulse_width_us |-> 50, exposures_per_frame |-> 4,
     end_delay_us |-> 40, light_intensity |-> 80]

\* the value of a "float" text in ticks: the integer above plus one half
FloatText == [f \in Fields |-> IntText[f] * TicksPerUs + TicksPerUs \div 2]

\* the text a complete file of its schema holds under a key
Natural(sections, f) ==
    IF "ImagingParameters" \in sections /\ f \in FloatFields THEN "float" ELSE "int"

Defects(sections, vals) == Cardinality({f \in Fields : vals[f] # Natural(sections, f)})

\* the text of a kind under the key of parameter f
TextOf(tok, f) ==
    CASE tok = "int" -> Text("int", IntText[f])
      [] tok = "float" -> Text("float", FloatText[f])
      [] tok = "neg1" -> Text("int", -1)
      [] tok = "junk" -> Text("junk", 0)
      [] OTHER -> Absent

Files ==
    {[kind |-> "missing", sections |-> {}, vals |-> [f \in Fields |-> Absent]],
     [kind |-> "malformed", sections |-> {}, vals |-> [f \in Fields |-> Absent]]}
    \cup {[kind |-> "parsed", sections |-> {}, vals |-> [f \in Fields |-> Absent]]}
    \cup UNION {{[kind |-> "parsed", sections |-> ss,
                  vals |-> [f \in Fields |-> TextOf(w[f], f)]] :
                    w \in {u \in [Fields -> Tokens] : Defects(ss, u) <= MaxDefects}} :
                 ss \in (SUBSET Sections) \ {{}}}

\* the fallback -1 as a value of the field: -1, or -1 us in ticks
MinusOne(f) == IF f \in FloatFields THEN -TicksPerUs ELSE -1

\* settings.getint(section, key, fallback=-1) raises ValueError
getint_raises(text) == text.t \in {"float", "junk"}
\* settings.getfloat(section, key, fallback=-1) raises ValueError
getfloat_raises(text) == text.t = "junk"

\* getint with the fallback 0
getint_fallback_zero(text, f) ==
    CASE text.t = "int" -> (IF f \in FloatFields THEN text.v * TicksPerUs ELSE text.v)
      [] OTHER -> 0

\* settings.getint(section, key, fallback=-1), stored in field f
getint(text, f) ==
    CASE text.t = "int" -> (IF f \in FloatFields THEN text.v * TicksPerUs ELSE text.v)
      [] OTHER -> MinusOne(f)

\* settings.getfloat(section, key, fallback=-1), stored in field f
getfloat(text, f) ==
    CASE text.t = "int" -> text.v * TicksPerUs
      [] text.t = "float" -> text.v
      [] OTHER -> MinusOne(f)

\* any(value == -1 for value in vars(params).values())
AnyMinusOne(p) == \E f \in Fields : p[f] = MinusOne(f)

\* the current schema: getfloat for the three float fields, getint otherwise
CurrentRaises(vals) ==
    \E f \in Fields :
        IF f \in FloatFields THEN getfloat_raises(vals[f]) ELSE getint_raises(vals[f])

CurrentParsed(vals) ==
    [f \in Fields |-> IF f \in FloatFields THEN getfloat(vals[f], f) ELSE getint(vals[f], f)]

\* the legacy schema: getint for seven keys, delay_window1_us keeps the
\* dataclass default
LegacyFields == Fields \ {"delay_window1_us"}

LegacyRaises(vals) == \E f \in LegacyFields : getint_raises(vals[f])

\* a legacy parse that reads delay_window1_us from the file as well
LegacyParsed_reads_delay1(vals) == [f \in Fields |-> getint(vals[f], f)]

LegacyParsed(vals) ==
    [f \in Fields |-> IF f \in LegacyFields THEN getint(vals[f], f) ELSE DefaultParams[f]]

Outcome(status, p) == [status |-> status, params |-> p]

\* a parser that stores the parsed fields before it validates them
load_settings_from_file_in_place(file, old) ==
    CASE file.kind = "missing" -> Outcome("None", old)
      [] file.kind = "malformed" -> Outcome("ParsingError", old)
      [] "ImagingParameters" \in file.sections ->
            (IF CurrentRaises(file.vals) THEN Outcome("-2", old)
             ELSE IF AnyMinusOne(CurrentParsed(file.vals))
                  THEN Outcome("-1", CurrentParsed(file.vals))
                  ELSE Outcome("0", CurrentParsed(file.vals)))
      [] "Settings" \in file.sections ->
            (IF LegacyRaises(file.vals) THEN Outcome("-2", old)
             ELSE IF AnyMinusOne(LegacyParsed(file.vals))
                  THEN Outcome("-1", LegacyParsed(file.vals))
                  ELSE Outcome("0", LegacyParsed(file.vals)))
      [] OTHER -> Outcome("None", old)

\* load_settings_from_file(config_path): what it returns (or the configparser
\* error settings.read raises, which nothing catches) and self.params after it
load_settings_from_file(file, old) ==
    CASE file.kind = "missing" -> Outcome("None", old)
      [] file.kind = "malformed" -> Outcome("ParsingError", old)
      [] "ImagingParameters" \in file.sections ->
            (IF CurrentRaises(file.vals) THEN Outcome("-2", old)
             ELSE IF AnyMinusOne(CurrentParsed(file.vals)) THEN Outcome("-1", old)
                  ELSE Outcome("0", CurrentParsed(file.vals)))
      [] "Settings" \in file.sections ->
            (IF LegacyRaises(file.vals) THEN Outcome("-2", old)
             ELSE IF AnyMinusOne(LegacyParsed(file.vals)) THEN Outcome("-1", old)
                  ELSE Outcome("0", LegacyParsed(file.vals)))
      [] OTHER -> Outcome("None", old)

\* str(self.rld.params.<f>): an integer prints as its digits, a float as a
\* decimal with a point (repr, which float() reads back to the same value)
str(x, f) == IF f \in FloatFields THEN Text("float", x) ELSE Text("int", x)

\* save_settings: the file config.write leaves for the parameter set p
save_settings_file(p) ==
    [kind |-> "parsed", sections |-> {"ImagingParameters"},
     vals |-> [f \in Fields |-> str(p[f], f)]]

\* parameter sets of the data model that are saved: end_delay_us and
\* light_intensity any integer (here -1, 0 and the default), delay_window1_us
\* 2.5 us or 2.515625 us
SavedParams ==
    {[DefaultParams EXCEPT !.end_delay_us = e, !.light_intensity = l,
                           !.delay_window1_us = d] :
        e \in {-1, 0, DefaultParams.end_delay_us},
        l \in {-1, 0, DefaultParams.light_intensity},
        d \in {DefaultParams.delay_window1_us, DefaultParams.delay_window1_us + 1}}

SavedFiles == {save_settings_file(p) : p \in SavedParams}

\* the parameter sets the RLD holds before the call
PriorParams ==
    {DefaultParams,
     [DefaultParams EXCEPT !.sets_to_acquire = 1, !.exposure_time_us = 30,
                           !.delay_window1_us = 320, !.light_intensity = 60]}

InitSettings ==
    /\ camera = "None"
    /\ serial_connection = "None"
    /\ image_dict = EmptyDict
    /\ average_lifetime = NoMap
    /\ image_start_time_dict = EmptyDict
    /\ params \in PriorParams
    /\ pc = "idle"
    /\ current_set = 0
    /\ key_i = 1
    /\ result = "none"
    /\ hw_log = <<>>
    /\ serial_out = <<>>
    /\ cam_acquiring = FALSE
    /\ cam_clock = 0
    /\ is_color = FALSE
    /\ scene \in {s \in Scenes : s.dark = 0 /\ s.window1 > s.window2}
    /\ runs = 0
    /\ args = NoArgs
    /\ ret = NoMap
    /\ config_file \in Files \cup SavedFiles
    /\ NoGui
    /\ NoUsb

\* rld.load_settings_from_file(config_path)
LoadSettingsFromFile ==
    /\ pc = "idle"
    /\ LET r == load_settings_from_file(config_file, params)
       IN  /\ result' = r.status
           /\ params' = r.params
    /\ UNCHANGED <<camera, serial_connection, image_dict, image_start_time_dict,
                   average_lifetime, pc, current_set, key_i, hw_log, runs>>
    /\ hw_unchanged /\ other_unchanged

NextSettings == LoadSettingsFromFile

SpecSettings == InitSettings /\ [][NextSettings]_vars


\* ------------------------------------------- SpecSnap: the grid validators
\* 0.0625 us and 0.03125 us in ticks
GridStep == TicksPerUs \div 16
HalfStep == TicksPerUs \div 32

\* the validators with the halfway remainder rounded up
validate_sb_half_up(value) ==
    LET difference == value % GridStep
    IN  IF difference > 0
        THEN (IF difference >= HalfStep
              THEN value + (GridStep - difference)
              ELSE value - difference)
        ELSE value

\* validate_delay1_sb, validate_delay2_sb, validate_pulse_width_sb (the same
\* body on three spin boxes): the value the spin box holds afterwards
validate_sb(value) ==
    LET difference == value % GridStep
    IN  IF difference > 0
        THEN (IF difference > HalfStep
              THEN value + (GridStep - difference)
              ELSE value - difference)
        ELSE value

\* the spin box of each float parameter
SbField ==
    [delay1_sb |-> "delay_window1_us", delay2_sb |-> "delay_window2_us",
     pulse_width_sb |-> "pulse_width_us"]

\* editingFinished of spin box sb: the validator connected to it
ValidateSb(sb) ==
    /\ edit.open /\ edit.sb = sb
    /\ ui' = [ui EXCEPT ![SbField[sb]] = validate_sb(@)]
    /\ edit' = [edit EXCEPT !.open = FALSE]
    /\ UNCHANGED <<pc, current_set, key_i, result, hw_log, runs, args, ret,
                   config_file, folder, heap, rld, rld_list, cb_index,
                   usb_watcher, monitor, events>>
    /\ UNCHANGED rld_vars
    /\ hw_unchanged

ValidateDelay1Sb == ValidateSb("delay1_sb")
ValidateDelay2Sb == ValidateSb("delay2_sb")
ValidatePulseWidthSb == ValidateSb("pulse_width_sb")

\* the values typed into a float spin box: its default plus 0 .. 2 grid steps
\* less one tick, so that every remainder occurs in two grid cells
TypedValues(f) == {DefaultParams[f] + r : r \in 0..(2 * GridStep - 1)}

\* a new RLD object as the window holds it
NewObject ==
    [params |-> DefaultParams, image_dict |-> EmptyDict,
     image_start_time_dict |-> EmptyDict, average_lifetime |-> NoMap]

\* a window whose three float spin boxes hold typed values, one of them
\* still being edited
InitSnap ==
    /\ NewRLD
    /\ pc = "idle"
    /\ current_set = 0
    /\ key_i = 1
    /\ result = "none"
    /\ hw_log = <<>>
    /\ serial_out = <<>>
    /\ cam_acquiring = FALSE
    /\ cam_clock = 0
    /\ is_color = FALSE
    /\ scene \in {sc \in Scenes : sc.dark = 0 /\ sc.window1 > sc.window2}
    /\ runs = 0
    /\ args = NoArgs
    /\ ret = NoMap
    /\ config_file = NoFile
    /\ folder = <<>>
    /\ \E d1 \in TypedValues("delay_window1_us"),
          d2 \in TypedValues("delay_window2_us"),
          pw \in TypedValues("pulse_width_us") :
          ui = [DefaultParams EXCEPT !.delay_window1_us = d1,
                                     !.delay_window2_us = d2,
                                     !.pulse_width_us = pw]
    /\ \E sb \in DOMAIN SbField :
          edit = [sb |-> sb, typed |-> ui[SbField[sb]], open |-> TRUE]
    /\ heap = <<NewObject>>
    /\ rld = 1
    /\ rld_list = <<>>
    /\ cb_index = -1
    /\ NoUsb

NextSnap ==
    \/ ValidateDelay1Sb
    \/ ValidateDelay2Sb
    \/ ValidatePulseWidthSb

SpecSnap == InitSnap /\ [][NextSnap]_vars


\* --------------------------------------------- SpecFolder: the data folder
\* A file of the data folder: its name in three parts (window1_000.tif is
\* stem "window1_", idx 0, ext ".tif"), the image a .tif holds and the
\* settings a .conf holds.
NoImage == [ts |-> 0, px |-> <<>>, fmt |-> "none"]
File(stem, idx, ext, img, conf) ==
    [stem |-> stem, idx |-> idx, ext |-> ext, img |-> img, conf |-> conf]

\* file_name.__contains__(s), file_name.startswith(s), file_name.endswith(s)
\* for the names used: no stem contains the marker of another
contains(file, s) == file.stem = s
startswith(file, s) == file.stem = s
endswith(file, s) == file.ext = s

\* cv2.imwrite(path, img): the array goes to the file, the frame's
\* acquisition time does not
imwrite(img) == [ts |-> 0, px |-> img.px, fmt |-> img.fmt]
\* cv2.imread(path, cv2.IMREAD_UNCHANGED)
imread(file) == file.img

\* the three branches of the loop of load_images_from_folder
IsWindow1File(file) == contains(file, "window1_") /\ endswith(file, ".tif")
IsWindow2File(file) ==
    /\ ~IsWindow1File(file)
    /\ contains(file, "window2_") /\ endswith(file, ".tif")
IsDarkFile(file) ==
    /\ ~IsWindow1File(file) /\ ~IsWindow2File(file)
    /\ (startswith(file, "dark_") \/ contains(file, "background_"))
    /\ endswith(file, ".tif")

Window1Files(listing) == SelectSeq(listing, IsWindow1File)
Window2Files(listing) == SelectSeq(listing, IsWindow2File)
DarkFiles(listing) == SelectSeq(listing, IsDarkFile)

ReadAll(files) == [i \in DOMAIN files |-> imread(files[i])]

LoadedDict(listing) ==
    [window1 |-> ReadAll(Window1Files(listing)),
     window2 |-> ReadAll(Window2Files(listing)),
     dark |-> ReadAll(DarkFiles(listing))]

\* load_images_from_folder that rejects unequal counts without loading
load_images_from_folder_strict(listing, old) ==
    LET d == LoadedDict(listing)
    IN  IF d.window1 = <<>> \/ d.window2 = <<>> \/ d.dark = <<>>
        THEN [status |-> "None", image_dict |-> old]
        ELSE IF Len(d.window1) # Len(d.window2) \/ Len(d.window1) # Len(d.dark)
                   \/ Len(d.window2) # Len(d.dark)
             THEN [status |-> "-1", image_dict |-> old]
             ELSE [status |-> "0", image_dict |-> d]

\* load_images_from_folder(data_folder_path): the status returned and
\* self.image_dict afterwards; listing is what os.listdir returns
load_images_from_folder(listing, old) ==
    LET d == LoadedDict(listing)
    IN  IF d.window1 = <<>> \/ d.window2 = <<>> \/ d.dark = <<>>
        THEN [status |-> "None", image_dict |-> old]
        ELSE IF Len(d.window1) # Len(d.window2) \/ Len(d.window1) # Len(d.dark)
                   \/ Len(d.window2) # Len(d.dark)
             THEN [status |-> "-1", image_dict |-> d]
             ELSE [status |-> "0", image_dict |-> d]

\* the orders os.listdir may return n files of one kind in
Perms(n) == {f \in [1..n -> 1..n] : \A i, j \in 1..n : i # j => f[i] # f[j]}

\* save_measurement, lines 548-553: <key>_000.tif, <key>_001.tif, ... as
\* the directory lists them in the order perm
WrittenImages(key, stack, perm) ==
    [i \in DOMAIN stack |->
        File(key \o "_", perm[i] - 1, ".tif", imwrite(stack[perm[i]]), NoFile)]

\* save_measurement, lines 554-555, 567-593: the lifetime image (when there
\* is a map), settings.conf and, after an acquisition, timestamps.txt
WrittenOthers(p, map, times) ==
    (IF map.some THEN <<File("lifetime_image", 0, ".tif", NoImage, NoFile)>> ELSE <<>>)
    \o <<File("settings", 0, ".conf", NoImage, save_settings_file(p))>>
    \o (IF times.window1 # <<>>
        THEN <<File("timestamps", 0, ".txt", NoImage, NoFile)>> ELSE <<>>)

\* save_measurement(file_path) saves only when each stack holds an image
NothingToSave(dict) == dict.window1 = <<>> \/ dict.window2 = <<>> \/ dict.dark = <<>>

\* the listings of the folder save_measurement has filled
SavedListings(dict, p, map, times) ==
    {WrittenOthers(p, map, times)
        \o WrittenImages("dark", dict.dark, pd)
        \o WrittenImages("window1", dict.window1, p1)
        \o WrittenImages("window2", dict.window2, p2) :
       pd \in Perms(Len(dict.dark)), p1 \in Perms(Len(dict.window1)),
       p2 \in Perms(Len(dict.window2))}

\* save_measurement(file_path) on the object, into an empty folder
SaveMeasurement ==
    /\ pc = "idle"
    /\ folder = <<>>
    /\ IF NothingToSave(image_dict)
       THEN /\ result' = "No images to save"
            /\ UNCHANGED folder
       ELSE /\ result' = "None"
            /\ folder' \in SavedListings(image_dict, params, average_lifetime,
                                          image_start_time_dict)
    /\ UNCHANGED <<pc, current_set, key_i, hw_log, runs, args, ret, config_file>>
    /\ UNCHANGED rld_vars
    /\ UNCHANGED gui_vars
    /\ UNCHANGED <<usb_watcher, monitor, events>>
    /\ hw_unchanged

\* rld.load_images_from_folder(data_folder_path)
LoadImagesFromFolder ==
    /\ pc = "idle"
    /\ LET r == load_images_from_folder(folder, image_dict)
       IN  /\ result' = r.status
           /\ image_dict' = r.image_dict
    /\ UNCHANGED <<camera, serial_connection, params, image_start_time_dict,
                   average_lifetime, pc, current_set, key_i, hw_log, runs>>
    /\ hw_unchanged /\ other_unchanged

\* frames whose pixel value differs from pull to pull (here: the camera time)
NoisyFrame(t) == [ts |-> t, px |-> <<t>>, fmt |-> "raw"]

\* the stacks and timestamps of an object after k successful pulls
StacksAfter(k) ==
    [key \in {"window1", "window2", "dark"} |->
        LET off == CASE key = "window1" -> 1 [] key = "window2" -> 2 [] OTHER -> 3
            n == (k + 3 - off) \div 3
        IN  [i \in 1..n |-> NoisyFrame(3 * (i - 1) + off)]]
TimesAfter(k) ==
    [key \in {"window1", "window2", "dark"} |->
        [i \in DOMAIN StacksAfter(k)[key] |-> StacksAfter(k)[key][i].ts]]

\* folders found on disk: nw1 window1_ files, nw2 window2_ files, nd dark_
\* files, nb background_ files (the legacy name) and a settings.conf
FolderWith(nw1, nw2, nd, nb) ==
    [i \in 1..nb |-> File("background_", i - 1, ".tif", imwrite(NoisyFrame(30 + i)), NoFile)]
    \o [i \in 1..nd |-> File("dark_", i - 1, ".tif", imwrite(NoisyFrame(20 + i)), NoFile)]
    \o <<File("settings", 0, ".conf", NoImage, save_settings_file(DefaultParams))>>
    \o [i \in 1..nw1 |-> File("window1_", i - 1, ".tif", imwrite(NoisyFrame(i)), NoFile)]
    \o [i \in 1..nw2 |-> File("window2_", i - 1, ".tif", imwrite(NoisyFrame(10 + i)), NoFile)]

FoldersOnDisk ==
    {<<>>} \cup {FolderWith(nw1, nw2, nd, nb) :
                    nw1 \in 0..MaxSets, nw2 \in 0..MaxSets, nd \in 0..MaxSets,
                    nb \in 0..1}

\* an object after a run of up to MaxSets sets that ended after k pulls, and
\* a folder on disk
InitFolder ==
    /\ camera = "cam"
    /\ serial_connection = "ser"
    /\ params = DefaultParams
    /\ \E k \in 0..(3 * MaxSets) :
          /\ image_dict = StacksAfter(k)
          /\ image_start_time_dict = TimesAfter(k)
          /\ average_lifetime =
                 IF k > 0 /\ k % 3 = 0
                 THEN SomeMap(LifetimeOf(params, StacksAfter(k))) ELSE NoMap
    /\ pc = "idle"
    /\ current_set = 0
    /\ key_i = 1
    /\ result = "none"
    /\ hw_log = <<>>
    /\ serial_out = <<>>
    /\ cam_acquiring = FALSE
    /\ cam_clock = 3 * MaxSets
    /\ is_color = FALSE
    /\ scene \in {sc \in Scenes : sc.dark = 0 /\ sc.window1 > sc.window2}
    /\ runs = 0
    /\ args = NoArgs
    /\ ret = NoMap
    /\ config_file = NoFile
    /\ folder \in FoldersOnDisk
    /\ ui = DefaultParams
    /\ edit = NoEdit
    /\ heap = <<>>
    /\ rld = 0
    /\ rld_list = <<>>
    /\ cb_index = -1
    /\ NoUsb

NextFolder ==
    \/ SaveMeasurement
    \/ LoadImagesFromFolder
    \/ CalculateAverageLifetime

SpecFolder == InitFolder /\ [][NextFolder]_vars


\* ------------------------------------------------ SpecGui: the main window
\* The window holds the camera and the serial connection (camera,
\* serial_connection) and hands them to each RLD object it creates; the
\* objects live in heap, self.rld and self.rld_list refer to them by index.
\* The camera is taken to deliver every frame and auto_save_ckb to be
\* unchecked.
MaxObjects == 3

\* what a handler of the window never touches
gui_frame ==
    UNCHANGED <<camera, serial_connection, params, image_dict, image_start_time_dict,
                average_lifetime, pc, current_set, key_i, runs, args, ret,
                cam_acquiring, is_color, scene, folder,
                usb_watcher, monitor, events>>

\* extract_gui_inputs(): self.rld.params = ImagingParameters(<spin box values>)
extract_gui_inputs(h, r, u) == [h EXCEPT ![r].params = u]

\* the position of a key in the for loop of acquire_images
KeyPos(key) == CHOOSE k \in DOMAIN Keys : Keys[k] = key

\* the object after run() has completed n = p.sets_to_acquire sets, the
\* camera clock being t0 at the start
RanObject(p, t0) ==
    LET d == [key \in {"window1", "window2", "dark"} |->
                 [i \in 1..p.sets_to_acquire |->
                     Frame(key, t0 + 3 * (i - 1) + KeyPos(key))]]
    IN  [params |-> p,
         image_dict |-> d,
         image_start_time_dict |->
             [key \in {"window1", "window2", "dark"} |->
                 [i \in DOMAIN d[key] |-> d[key][i].ts]],
         average_lifetime |-> SomeMap(LifetimeOf(p, d))]

\* the camera and serial calls of that run
RunLog(n) ==
    <<Op("init_camera", "-"), Op("write_R", "-"),
      Op("start_acquisition", "-"), Op("write_A", "-")>>
    \o [i \in 1..(3 * n) |-> Op("get_image", Keys[((i - 1) % 3) + 1])]
    \o <<Op("stop_acquisition", "-")>>

\* the value typed into delay1_sb: 2.5 us plus three ticks (2.546875 us)
TypedInGui == {DefaultParams.delay_window1_us + GridStep - 1}

\* a settings file on disk whose delay_window1_us is 2.515625 us
SettingsOnDisk ==
    {save_settings_file([DefaultParams EXCEPT !.delay_window1_us = @ + 1])}

\* data folders on disk: a complete one and one without dark images
FoldersInGui == {FolderWith(1, 1, 1, 0), FolderWith(1, 1, 0, 0)}

IsConf(file) == endswith(file, ".conf")

\* MainWindow.__init__: self.rld = RLD(), self.rld_list = [], the spin boxes
\* at the dataclass defaults, extract_gui_inputs()
InitGui ==
    /\ camera \in {"None", "cam"}
    /\ serial_connection = "ser"
    /\ params = DefaultParams
    /\ image_dict = EmptyDict
    /\ image_start_time_dict = EmptyDict
    /\ average_lifetime = NoMap
    /\ pc = "idle"
    /\ current_set = 0
    /\ key_i = 1
    /\ result = "none"
    /\ hw_log = <<>>
    /\ serial_out = <<>>
    /\ cam_acquiring = FALSE
    /\ cam_clock = 0
    /\ is_color = FALSE
    /\ scene \in {sc \in Scenes : sc.dark = 0 /\ sc.window1 > sc.window2}
    /\ runs = 0
    /\ args = NoArgs
    /\ ret = NoMap
    /\ config_file = NoFile
    /\ folder = <<>>
    /\ ui = DefaultParams
    /\ edit = NoEdit
    /\ heap = <<NewObject>>
    /\ rld = 1
    /\ rld_list = <<>>
    /\ cb_index = -1
    /\ NoUsb

\* the user types a value into delay1_sb (editingFinished validates it
\* before any button is pressed)
EditSpinBox ==
    /\ ~edit.open
    /\ \E v \in TypedInGui :
          /\ ui' = [ui EXCEPT !.delay_window1_us = v]
          /\ edit' = [sb |-> "delay1_sb", typed |-> v, open |-> TRUE]
    /\ UNCHANGED <<result, hw_log, cam_clock, serial_out, config_file,
                   heap, rld, rld_list, cb_index>>
    /\ gui_frame

\* image_tau(): a new object, extract_gui_inputs, attach_hardware, run();
\* unless run() returns -1 the object is appended, and setCurrentIndex makes
\* change_measurement_selection select it
ImageTau ==
    /\ ~edit.open
    /\ Len(heap) < MaxObjects
    /\ rld' = Len(heap) + 1
    /\ IF NotReady
       THEN /\ heap' = Append(heap, [NewObject EXCEPT !.params = ui])
            /\ result' = "-1"
            /\ UNCHANGED <<hw_log, cam_clock, serial_out, rld_list, cb_index>>
       ELSE /\ heap' = Append(heap, RanObject(ui, cam_clock))
            /\ result' = "None"
            /\ hw_log' = RunLog(ui.sets_to_acquire)
            /\ cam_clock' = cam_clock + 3 * ui.sets_to_acquire
            /\ serial_out' = start_str
            /\ rld_list' = Append(rld_list, Len(heap) + 1)
            /\ cb_index' = Len(rld_list)
    /\ UNCHANGED <<ui, edit, config_file>>
    /\ gui_frame

\* load_measurement(): a new object loads the images of the chosen folder
\* and the settings of its .conf file; it is appended unless a role is
\* missing.  addItem on an empty combo box selects the new item, which makes
\* change_measurement_selection apply the object's settings to the GUI.
LoadMeasurement ==
    /\ ~edit.open
    /\ Len(heap) < MaxObjects
    /\ rld' = Len(heap) + 1
    /\ \E listing \in FoldersInGui :
          LET r == load_images_from_folder(listing, EmptyDict)
              confs == SelectSeq(listing, IsConf)
              st == load_settings_from_file(
                        IF confs = <<>> THEN NoFile ELSE confs[1].conf, DefaultParams)
          IN  /\ result' = r.status
              /\ IF r.status = "None"
                 THEN /\ heap' = Append(heap, NewObject)
                      /\ UNCHANGED <<ui, rld_list, cb_index>>
                 ELSE /\ heap' = Append(heap,
                             [params |-> st.params,
                              image_dict |-> r.image_dict,
                              image_start_time_dict |-> EmptyDict,
                              average_lifetime |->
                                  SomeMap(LifetimeOf(st.params, r.image_dict))])
                      /\ rld_list' = Append(rld_list, Len(heap) + 1)
                      /\ cb_index' = IF rld_list = <<>> THEN 0 ELSE cb_index
                      /\ ui' = IF st.status = "0" \/ rld_list = <<>>
                               THEN st.params ELSE ui
    /\ UNCHANGED <<edit, hw_log, cam_clock, serial_out, config_file>>
    /\ gui_frame

\* change_measurement_selection(): the user picks another entry
ChangeMeasurementSelection ==
    /\ ~edit.open
    /\ \E index \in 0..(Len(rld_list) - 1) :
          /\ index # cb_index
          /\ cb_index' = index
          /\ rld' = rld_list[index + 1]
          /\ ui' = heap[rld_list[index + 1]].params
    /\ UNCHANGED <<edit, result, hw_log, cam_clock, serial_out, config_file,
                   heap, rld_list>>
    /\ gui_frame

\* clear_measurements()
ClearMeasurements ==
    /\ ~edit.open
    /\ Len(heap) < MaxObjects
    /\ rld_list # <<>>
    /\ rld_list' = <<>>
    /\ cb_index' = -1
    /\ heap' = Append(heap, NewObject)
    /\ rld' = Len(heap) + 1
    /\ UNCHANGED <<ui, edit, result, hw_log, cam_clock, serial_out, config_file>>
    /\ gui_frame

RemoveAt(seq, i) == SubSeq(seq, 1, i - 1) \o SubSeq(seq, i + 1, Len(seq))

\* clear_selected_measurement(): removeItem and setCurrentIndex may or may
\* not emit currentIndexChanged, so the settings of the entry selected
\* afterwards may or may not be applied to the GUI
ClearSelectedMeasurement ==
    /\ ~edit.open
    /\ cb_index \in 0..(Len(rld_list) - 1)
    /\ LET rest == RemoveAt(rld_list, cb_index + 1)
           new_index == IF cb_index < Len(rest) - 1 THEN cb_index ELSE Len(rest) - 1
       IN  /\ rld_list' = rest
           /\ IF rest # <<>>
              THEN /\ rld' = rest[new_index + 1]
                   /\ cb_index' = new_index
                   /\ ui' \in {ui, heap[rest[new_index + 1]].params}
                   /\ UNCHANGED heap
              ELSE /\ Len(heap) < MaxObjects
                   /\ heap' = Append(heap, NewObject)
                   /\ rld' = Len(heap) + 1
                   /\ cb_index' = -1
                   /\ UNCHANGED ui
    /\ UNCHANGED <<edit, result, hw_log, cam_clock, serial_out, config_file>>
    /\ gui_frame

\* load_settings(): self.rld.load_settings_from_file(config_path) on the
\* file the user picks (the one saved last or the one on disk), then
\* apply_settings_to_gui() on success
LoadSettings ==
    /\ ~edit.open
    /\ \E file \in {config_file} \cup SettingsOnDisk :
          LET st == load_settings_from_file(file, heap[rld].params)
          IN  /\ result' = st.status
              /\ heap' = [heap EXCEPT ![rld].params = st.params]
              /\ ui' = IF st.status = "0" THEN st.params ELSE ui
    /\ UNCHANGED <<edit, hw_log, cam_clock, serial_out, config_file,
                   rld, rld_list, cb_index>>
    /\ gui_frame

\* save_settings(): extract_gui_inputs(), then the file is written
SaveSettings ==
    /\ ~edit.open
    /\ heap' = extract_gui_inputs(heap, rld, ui)
    /\ config_file' = save_settings_file(ui)
    /\ result' = "None"
    /\ UNCHANGED <<ui, edit, hw_log, cam_clock, serial_out, rld, rld_list, cb_index>>
    /\ gui_frame

NextGui ==
    \/ EditSpinBox
    \/ ValidateDelay1Sb
    \/ ImageTau
    \/ LoadMeasurement
    \/ ChangeMeasurementSelection
    \/ ClearMeasurements
    \/ ClearSelectedMeasurement
    \/ LoadSettings
    \/ SaveSettings

SpecGui == InitGui /\ [][NextGui]_vars


\* ------------------------------------------------- SpecUsb: the USB watcher
\* Two threads: the GUI thread runs MainWindow.__init__ and then the event
\* loop, which delivers the queued usb_event signals to on_usb_event; the
\* monitor thread runs the callbacks on_connect and on_disconnect, one
\* statement per step.  The USB bus is the environment: a device is plugged
\* in or removed at any moment.  The library behind self._monitor is not part
\* of the sources: it reports a device as connected when the device is on the
\* bus and was not when it looked last, and takes its first look either when
\* it is constructed or when monitoring starts.
\* hot-plug events in one behaviour
MaxPlugs == 3

\* the devices that pass device_filter_tuple: an Arduino whose ID_MODEL names
\* a COM port, one that is listed as a generic device, and a XIMEA camera
Devices ==
    {[id |-> "arduino", vid |-> "2341", com |-> TRUE],
     [id |-> "generic", vid |-> "2341", com |-> FALSE],
     [id |-> "ximea", vid |-> "20F7", com |-> FALSE]}

device_filter(info) ==
    CASE info.vid = "2341" -> "controller"
      [] info.vid = "20F7" -> "camera"
      [] OTHER -> "None"

\* update_controllers() and update_cameras(): the dictionary built from
\* get_available_devices(), as the set of its entries
update_controllers(connected_devices) ==
    {d \in connected_devices : device_filter(d) = "controller"}
update_cameras(connected_devices) ==
    {d \in connected_devices : device_filter(d) = "camera"}

\* what the watcher and the window's device handling never touch
usb_frame ==
    /\ UNCHANGED <<params, image_dict, image_start_time_dict, average_lifetime,
                   current_set, key_i, result, hw_log, serial_out, cam_acquiring,
                   cam_clock, is_color, scene, runs, args, ret, config_file, folder>>
    /\ UNCHANGED gui_vars

\* connect_serial(): the values self.serial_connection may hold afterwards;
\* serial.Serial(com_port) may raise SerialException, which is caught
connect_serial(watcher, serial) ==
    IF watcher.number_of_controllers > 0 /\ \E d \in watcher.controllers : d.com
    THEN {serial, "ser"}
    ELSE {serial}

\* the devices on the bus when MainWindow.__init__ reaches USBWatcher()
InitUsb ==
    /\ NewRLD
    /\ pc = "USBWatcher"
    /\ current_set = 0
    /\ key_i = 1
    /\ result = "none"
    /\ hw_log = <<>>
    /\ serial_out = <<>>
    /\ cam_acquiring = FALSE
    /\ cam_clock = 0
    /\ is_color = FALSE
    /\ scene \in {sc \in Scenes : sc.dark = 0 /\ sc.window1 > sc.window2}
    /\ runs = 0
    /\ args = NoArgs
    /\ ret = NoMap
    /\ config_file = NoFile
    /\ NoGui
    /\ usb_watcher = [controllers |-> {}, cameras |-> {},
                      number_of_controllers |-> 0, number_of_cameras |-> 0]
    /\ \E on_bus \in SUBSET Devices :
          monitor = [devices |-> on_bus, last |-> {}, running |-> FALSE,
                     plugs |-> 0, cb |-> <<>>]
    /\ events = <<>>

\* MainWindow.__init__, lines 133-153, and USBWatcher.__init__ inside it:
\* one read of the bus per step
MainWindowInit ==
    /\ \/ /\ pc = "USBWatcher"
          /\ monitor' = [monitor EXCEPT !.last = monitor.devices]
          /\ pc' = "update_controllers"
          /\ UNCHANGED <<usb_watcher, camera, serial_connection>>
       \/ /\ pc = "update_controllers"
          /\ usb_watcher' = [usb_watcher EXCEPT
                                !.controllers = update_controllers(monitor.devices)]
          /\ pc' = "update_cameras"
          /\ UNCHANGED <<monitor, camera, serial_connection>>
       \/ /\ pc = "update_cameras"
          /\ LET cams == update_cameras(monitor.devices)
             IN  usb_watcher' =
                     [usb_watcher EXCEPT
                         !.cameras = cams,
                         !.number_of_controllers = Cardinality(usb_watcher.controllers),
                         !.number_of_cameras = Cardinality(cams)]
          /\ pc' = "start"
          /\ UNCHANGED <<monitor, camera, serial_connection>>
       \/ /\ pc = "start"
          /\ \E first_look \in {monitor.last, monitor.devices} :
                monitor' = [monitor EXCEPT !.running = TRUE, !.last = first_look]
          /\ pc' = "open_device"
          /\ UNCHANGED <<usb_watcher, camera, serial_connection>>
       \/ /\ pc = "open_device"
          /\ camera' = IF update_cameras(monitor.devices) # {} THEN "cam" ELSE "None"
          /\ serial_connection' \in connect_serial(usb_watcher, "None")
          /\ pc' = "idle"
          /\ UNCHANGED <<usb_watcher, monitor>>
    /\ UNCHANGED events
    /\ usb_frame

\* a device is plugged in or pulled out
HotPlug ==
    /\ monitor.plugs < MaxPlugs
    /\ \E d \in Devices :
          monitor' = [monitor EXCEPT
                          !.devices = IF d \in @ THEN @ \ {d} ELSE @ \cup {d},
                          !.plugs = @ + 1]
    /\ UNCHANGED <<usb_watcher, events, pc, camera, serial_connection>>
    /\ usb_frame

\* on_connect(dev_id, info), lines 55-65: emit, store, count.  The queued
\* signal carries action and type; dev names the device the callback was
\* called for (not part of the signal, kept to state properties of the
\* handler)
on_connect ==
    /\ monitor.running
    /\ \/ /\ monitor.cb = <<>>
          /\ \E d \in monitor.devices \ monitor.last :
                /\ monitor' = [monitor EXCEPT !.last = @ \cup {d},
                                              !.cb = <<[pc |-> "connect_store", dev |-> d]>>]
                /\ events' = Append(events, [action |-> "added",
                                            type |-> device_filter(d),
                                            dev |-> d.id])
          /\ UNCHANGED usb_watcher
       \/ /\ monitor.cb # <<>> /\ monitor.cb[1].pc = "connect_store"
          /\ LET d == monitor.cb[1].dev
             IN  usb_watcher' =
                     IF device_filter(d) = "controller"
                     THEN [usb_watcher EXCEPT !.controllers = @ \cup {d}]
                     ELSE [usb_watcher EXCEPT !.cameras = @ \cup {d}]
          /\ monitor' = [monitor EXCEPT !.cb[1].pc = "connect_count"]
          /\ UNCHANGED events
       \/ /\ monitor.cb # <<>> /\ monitor.cb[1].pc = "connect_count"
          /\ usb_watcher' =
                 IF device_filter(monitor.cb[1].dev) = "controller"
                 THEN [usb_watcher EXCEPT !.number_of_controllers = @ + 1]
                 ELSE [usb_watcher EXCEPT !.number_of_cameras = @ + 1]
          /\ monitor' = [monitor EXCEPT !.cb = <<>>]
          /\ UNCHANGED events
    /\ UNCHANGED <<pc, camera, serial_connection>>
    /\ usb_frame

\* on_disconnect(dev_id, info), lines 67-76: emit, pop, count
on_disconnect ==
    /\ monitor.running
    /\ \/ /\ monitor.cb = <<>>
          /\ \E d \in monitor.last \ monitor.devices :
                /\ monitor' = [monitor EXCEPT !.last = @ \ {d},
                                              !.cb = <<[pc |-> "disconnect_pop", dev |-> d]>>]
                /\ events' = Append(events, [action |-> "removed",
                                            type |-> device_filter(d),
                                            dev |-> d.id])
          /\ UNCHANGED usb_watcher
       \/ /\ monitor.cb # <<>> /\ monitor.cb[1].pc = "disconnect_pop"
          /\ LET d == monitor.cb[1].dev
             IN  usb_watcher' =
                     IF device_filter(d) = "controller"
                     THEN [usb_watcher EXCEPT !.controllers = @ \ {d}]
                     ELSE [usb_watcher EXCEPT !.cameras = @ \ {d}]
          /\ monitor' = [monitor EXCEPT !.cb[1].pc = "disconnect_count"]
          /\ UNCHANGED events
       \/ /\ monitor.cb # <<>> /\ monitor.cb[1].pc = "disconnect_count"
          /\ usb_watcher' =
                 IF device_filter(monitor.cb[1].dev) = "controller"
                 THEN [usb_watcher EXCEPT !.number_of_controllers = @ - 1]
                 ELSE [usb_watcher EXCEPT !.number_of_cameras = @ - 1]
          /\ monitor' = [monitor EXCEPT !.cb = <<>>]
          /\ UNCHANGED events
    /\ UNCHANGED <<pc, camera, serial_connection>>
    /\ usb_frame

\* on_usb_event(action, type_of_device) in the GUI thread, for the signal
\* at the head of the queue
OnUsbEvent ==
    /\ pc = "idle"
    /\ events # <<>>
    /\ LET e == Head(events)
       IN  /\ serial_connection' \in
                  CASE e.type = "controller" /\ e.action = "added" ->
                          (IF serial_connection = "None"
                           THEN connect_serial(usb_watcher, serial_connection)
                           ELSE {serial_connection})
                    [] e.type = "controller" /\ e.action = "removed" -> {"None"}
                    [] OTHER -> {serial_connection}
           /\ camera' =
                  CASE e.type = "camera" /\ e.action = "added" ->
                          (IF camera = "None" /\ update_cameras(monitor.devices) # {}
                           THEN "cam" ELSE camera)
                    [] e.type = "camera" /\ e.action = "removed" -> "None"
                    [] OTHER -> camera
    /\ events' = Tail(events)
    /\ UNCHANGED <<pc, usb_watcher, monitor>>
    /\ usb_frame

NextUsb ==
    \/ MainWindowInit
    \/ HotPlug
    \/ on_connect
    \/ on_disconnect
    \/ OnUsbEvent

SpecUsb == InitUsb /\ [][NextUsb]_vars


\* ================================================================ claims
\* the object lacks a camera or a serial connection
NotAttached == serial_connection = "None" \/ camera = "None"

HasOp(name) == \E i \in DOMAIN hw_log : hw_log[i].op = name
CountOp(name) == Cardinality({i \in DOMAIN hw_log : hw_log[i].op = name})
IsPull(e) == e.op = "get_image"
Pulls == SelectSeq(hw_log, IsPull)

\* C1: run() on an object without a camera or without a serial connection
\* returns -1 and touches neither the hardware (no camera configuration, no
\* write to the controller, no frame pull) nor the image stacks, the
\* timestamp sequences or the lifetime map.
C1_NotReadyRunDoesNothing ==
    [][(Run /\ NotAttached) =>
          /\ result' = "-1"
          /\ pc' = "idle"
          /\ hw_log' = hw_log
          /\ cam_clock' = cam_clock
          /\ cam_acquiring' = cam_acquiring
          /\ image_dict' = image_dict
          /\ image_start_time_dict' = image_start_time_dict
          /\ average_lifetime' = average_lifetime]_vars

\* run() has returned -1 on an object that holds a camera but no serial
\* connection
C1_Witness == result = "-1" /\ camera = "cam" /\ serial_connection = "None"

\* the pulls of a complete run of n sets
ExpectedPulls(n) == [i \in 1..(3 * n) |-> Op("get_image", Keys[((i - 1) % 3) + 1])]

\* the camera time of the i-th frame of window number k in a run of n sets
\* that has just ended at camera time now
FrameTime(now, n, k, i) == (now - 3 * n) + 3 * (i - 1) + k

CompleteRun ==
    LET n == params.sets_to_acquire
    IN  /\ Pulls = ExpectedPulls(n)
        /\ \A k \in DOMAIN Keys :
              /\ Len(image_dict[Keys[k]]) = n
              /\ \A i \in 1..n : image_dict[Keys[k]][i].ts = FrameTime(cam_clock, n, k, i)

\* C2: a run that completes normally (run() returns None) has pulled exactly
\* 3 * sets_to_acquire frames in the order window1, window2, dark, repeated,
\* and leaves each stack with exactly sets_to_acquire images, the i-th of them
\* the frame pulled for that window in the i-th set of this run.
C2_CompleteRunStacks == [][(RunPost /\ result' = "None") => CompleteRun']_vars

\* a second run on the same object has completed with MaxSets sets, after an
\* earlier run had already stored frames
C2_Witness ==
    /\ pc = "idle" /\ result = "None" /\ runs = MaxRuns
    /\ hw_log # <<>> /\ hw_log[Len(hw_log)].op = "stop_acquisition"
    /\ Len(image_dict.dark) = MaxSets
    /\ Len(image_start_time_dict.dark) > MaxSets

\* C3: every run that started camera acquisition has called
\* stop_acquisition by the time it ends, a run ended by a failed frame pull
\* included.
C3_AcquisitionStoppedWhenRunEnds ==
    (pc = "idle" /\ HasOp("start_acquisition")) => HasOp("stop_acquisition")

\* C4: a frame pull that fails after k complete sets ends the run with
\* window1, window2 and dark each holding exactly k images and hands the
\* caller the status PartialAcquisition.
C4_PartialAcquisitionResult ==
    [][GetImageFails =>
          /\ \A k \in DOMAIN Keys : Len(image_dict'[Keys[k]]) = current_set
          /\ result' = "PartialAcquisition"]_vars

\* C5: within a run the camera is configured first, the settings command is
\* written next and the start command after it; the start command is written
\* once, after start_acquisition and before the first frame pull.
C5_CommandOrder ==
    /\ \A i \in DOMAIN hw_log :
          /\ hw_log[i].op = "write_R" => \E j \in 1..(i - 1) : hw_log[j].op = "init_camera"
          /\ hw_log[i].op = "write_A" =>
                /\ \E j \in 1..(i - 1) : hw_log[j].op = "write_R"
                /\ \E j \in 1..(i - 1) : hw_log[j].op = "start_acquisition"
          /\ hw_log[i].op \in {"get_image", "get_image_error"} =>
                \E j \in 1..(i - 1) : hw_log[j].op = "write_A"
    /\ CountOp("write_A") <= 1
    /\ CountOp("write_R") <= 1
    /\ pc \in {"get_image", "stop_acquisition", "post"} => CountOp("write_A") = 1

\* a run is inside its capture loop with frames already pulled
C5_Witness == pc = "get_image" /\ HasOp("get_image")

\* the inputs and the output of the call at pixel p
W1(p) == args.arr_window1.a[p]
W2(p) == args.arr_window2.a[p]
Tau(p) == ret.v.a[p]
Pixels == DOMAIN args.arr_window1.a

\* w1 / w2 is 0, or its logarithm is <= 0 or undefined: w1 = 0, w1 and w2 of
\* opposite sign, or 0 < w1/w2 <= 1 (rationals compared by cross-multiplying)
RatioZeroOrLogNotPositive(w1, w2) ==
    \/ w1.n = 0 /\ w2.n # 0
    \/ w1.n * w2.n < 0
    \/ w1.n * w2.n > 0 /\ Abs(w1.n) * w2.d <= Abs(w2.n) * w1.d

\* C6: a pixel whose ratio is 0 or whose log-ratio is <= 0 is NaN in the
\* map, and for delta_t > 0 no pixel of the map is finite and <= 0.
C6_NonPositiveLogIsNaN ==
    ret.some =>
        \A p \in Pixels :
            /\ RatioZeroOrLogNotPositive(W1(p), W2(p)) => IsNaN(Tau(p))
            /\ args.delta_t > 0 => (IsFinite(Tau(p)) => Sign(Tau(p)) > 0)

\* a map computed for delta_t > 0 with an opposite-sign pixel and a pixel
\* whose ratio lies strictly between 0 and 1
C6_Witness ==
    /\ ret.some /\ args.delta_t > 0
    /\ W1(1).n < 0 /\ W2(1).n > 0
    /\ W1(2).n > 0 /\ W1(2).n * W2(2).d < W2(2).n * W1(2).d
    /\ IsNaN(Tau(1)) /\ IsNaN(Tau(2))

\* C7: a pixel whose window2 average is exactly 0 is NaN in the map, not an
\* infinity, and every other pixel of the map has the value the computation
\* gives for that pixel alone.
C7_ZeroWindow2IsNaN ==
    ret.some =>
        \A p \in Pixels :
            W2(p).n = 0 =>
                /\ IsNaN(Tau(p))
                /\ \A q \in Pixels \ {p} :
                      Tau(q) = calculate_lifetime(args.delta_t, Arr(<<W1(q)>>),
                                                  Arr(<<W2(q)>>)).a[1]

\* a map with window2 = 0 under a positive window1 at pixel 1 and a finite
\* lifetime at pixel 2
C7_Witness ==
    /\ ret.some
    /\ W2(1).n = 0 /\ W1(1).n > 0
    /\ IsFinite(Tau(2)) /\ Sign(Tau(2)) > 0

FinitePositive(x) == IsFinite(x) /\ Sign(x) > 0

\* C8 as claimed: for delta_t > 0 the lifetime is finite and positive at
\* every pixel with 0 < window1 < window2.
C8_PositiveWhereW1BelowW2 ==
    (ret.some /\ args.delta_t > 0) =>
        \A p \in Pixels :
            (W1(p).n > 0 /\ W1(p).n * W2(p).d < W2(p).n * W1(p).d) => FinitePositive(Tau(p))

\* C8 amended: for delta_t > 0 the lifetime is finite and positive at every
\* pixel with 0 < window2 < window1.
C8_PositiveWhereW2BelowW1 ==
    (ret.some /\ args.delta_t > 0) =>
        \A p \in Pixels :
            (W2(p).n > 0 /\ W2(p).n * W1(p).d < W1(p).n * W2(p).d) => FinitePositive(Tau(p))

\* a map computed for delta_t > 0 with 0 < window2 < window1 at pixel 1
C8_Witness ==
    /\ ret.some /\ args.delta_t > 0
    /\ W2(1).n > 0 /\ W2(1).n * W1(1).d < W1(1).n * W2(1).d
    /\ Tau(1).k = "quot"

\* C9: calculate_average_lifetime() on three empty stacks fails with the
\* EmptyStack error and stores no lifetime map.
C9_EmptyStackError ==
    [][(CalculateAverageLifetime /\ image_dict = EmptyDict) =>
          /\ result' = "EmptyStack"
          /\ average_lifetime' = average_lifetime]_vars

\* C10: a call of load_settings_from_file that returns -1, -2 or None
\* leaves params as they were, whichever schema the file uses.
C10_ParamsKeptUnlessSuccess ==
    [][(LoadSettingsFromFile /\ result' \in {"-1", "-2", "None"}) => params' = params]_vars

\* an incomplete current-schema file whose exposure_time_us parses to a value
\* other than the one the object holds has been loaded
C10_Witness ==
    /\ result = "-1"
    /\ "ImagingParameters" \in config_file.sections
    /\ config_file.vals["exposure_time_us"].t = "int"
    /\ params.exposure_time_us # IntText["exposure_time_us"]


\* the file read has the current-schema section
CurrentSchemaFile ==
    config_file.kind = "parsed" /\ "ImagingParameters" \in config_file.sections

\* the text is a number of the type the current schema reads for field f:
\* an integer, or for the three float fields any decimal
ParsesAs(text, f) ==
    IF f \in FloatFields THEN text.t \in {"int", "float"} ELSE text.t = "int"

SomeFieldAbsent == \E f \in Fields : config_file.vals[f].t = "absent"
SomeFieldNotANumber == \E f \in Fields : config_file.vals[f].t = "junk"
SomeFieldUnparseable ==
    \E f \in Fields :
        config_file.vals[f].t # "absent" /\ ~ParsesAs(config_file.vals[f], f)

C12_MalformedIsCorrupt ==
    [][(LoadSettingsFromFile /\ config_file.kind = "malformed") =>
          result' = "-2"]_vars

\* C13: for every parameter set of the data model, every integer value of
\* end_delay_us and light_intensity included, the file save_settings writes
\* for it parses with load_settings_from_file to success (0) and leaves
\* params equal to the set that was saved.
C13_SaveThenLoadRoundTrip ==
    [][\A p \in SavedParams :
          (LoadSettingsFromFile /\ config_file = save_settings_file(p)) =>
              (result' = "0" /\ params' = p)]_vars

\* a validator has just run on the spin box edited last
Validated == ValidateDelay1Sb \/ ValidateDelay2Sb \/ ValidatePulseWidthSb
OnGrid(value) == value % GridStep = 0

\* C14 (as stated): a validator leaves the nearest multiple of 0.0625 us in
\* its spin box, and a value exactly halfway between two multiples (remainder
\* 0.03125) goes up to the higher multiple.
C14_SnapNearestHalfwayUp ==
    [][Validated =>
          LET old == ui[SbField[edit.sb]]
              new == ui'[SbField[edit.sb]]
          IN  /\ OnGrid(new)
              /\ Abs(new - old) <= HalfStep
              /\ (old % GridStep = HalfStep) => new = old + HalfStep]_vars

\* C14 (amended): a validator leaves the nearest multiple of 0.0625 us in
\* its spin box, and a value exactly halfway between two multiples (remainder
\* 0.03125) goes down to the lower multiple.
C14_SnapNearestHalfwayDown ==
    [][Validated =>
          LET old == ui[SbField[edit.sb]]
              new == ui'[SbField[edit.sb]]
          IN  /\ OnGrid(new)
              /\ Abs(new - old) <= HalfStep
              /\ (old % GridStep = HalfStep) => new = old - HalfStep]_vars

\* the validator of delay2_sb has run on a typed value exactly halfway
\* between two multiples
C14_Witness ==
    /\ edit.sb = "delay2_sb" /\ ~edit.open
    /\ edit.typed % GridStep = HalfStep
    /\ ui.delay_window2_us = edit.typed - HalfStep

\* the command the claim describes: R, eight fields with a comma before each,
\* a newline, nothing else
CommandOf(f) ==
    <<Ch("R")>>
    \o [i \in 1..(2 * Len(f)) |-> IF i % 2 = 1 THEN Ch(",") ELSE f[i \div 2]]
    \o <<Ch("\n")>>

FieldsOf(p) ==
    <<IntStr(p.exposure_time_us),
      FloatStr(p.delay_window1_us + p.pulse_width_us - Skew),
      FloatStr(p.delay_window2_us + p.pulse_width_us - Skew),
      IntStr(p.exposures_per_frame), IntStr(p.light_intensity),
      FloatStr(p.pulse_width_us), IntStr(p.end_delay_us),
      IntStr(p.sets_to_acquire)>>

IsNumber(t) == t.c \in {"int", "float"}
NumbersOf(cmd) == SelectSeq(cmd, IsNumber)

\* delays 2.5 and 22.5 us with a pulse width of 40.0 us
ReferenceDelays(p) ==
    /\ 2 * p.delay_window1_us = 5 * TicksPerUs
    /\ 2 * p.delay_window2_us = 45 * TicksPerUs
    /\ p.pulse_width_us = 40 * TicksPerUs

\* C15: init_rld_controller writes exactly one command: R, then the eight
\* fields exposure_time_us, delay_window1_us + pulse_width_us - 0.75,
\* delay_window2_us + pulse_width_us - 0.75, exposures_per_frame,
\* light_intensity, pulse_width_us, end_delay_us, sets_to_acquire separated by
\* commas, then a newline, and no other character; delays 2.5 and 22.5 with
\* pulse width 40.0 give the delay fields 41.75 and 61.75.
C15_SettingsCommand ==
    [][InitRldController =>
          /\ Len(hw_log') = Len(hw_log) + 1
          /\ hw_log'[Len(hw_log')].op = "write_R"
          /\ serial_out' = CommandOf(FieldsOf(params))
          /\ ReferenceDelays(params) =>
                /\ 4 * NumbersOf(serial_out')[2].v = 167 * TicksPerUs
                /\ 4 * NumbersOf(serial_out')[3].v = 247 * TicksPerUs]_vars

\* C19: after every completed run, a second run on the same object
\* included, each window's timestamp sequence is as long as its image
\* sequence and its i-th timestamp is the one recorded for the i-th image.
C19_TimestampsParallelToImages ==
    [][(RunPost /\ result' = "None") =>
          \A k \in DOMAIN Keys :
              /\ Len(image_start_time_dict'[Keys[k]]) = Len(image_dict'[Keys[k]])
              /\ \A i \in DOMAIN image_dict'[Keys[k]] :
                    i \in DOMAIN image_start_time_dict'[Keys[k]]
                    /\ image_start_time_dict'[Keys[k]][i] = image_dict'[Keys[k]][i].ts]_vars

\* the role a file of the folder plays by its name
RoleOf(file) ==
    CASE file.ext # ".tif" -> "none"
      [] file.stem = "window1_" -> "window1"
      [] file.stem = "window2_" -> "window2"
      [] file.stem \in {"dark_", "background_"} -> "dark"
      [] OTHER -> "none"

RoleFiles(key) == {i \in DOMAIN folder : RoleOf(folder[i]) = key}
RoleCount(key) == Cardinality(RoleFiles(key))
PixelsOf(stack) == [i \in DOMAIN stack |-> stack[i].px]

\* C17: load_images_from_folder returns None and leaves the stacks as they
\* were when window1, window2 or dark/background has no image in the folder;
\* otherwise it replaces each stack with the images of that role and returns
\* 0 when the three counts are equal and -1 when they differ.
C17_LoadImagesOutcome ==
    [][LoadImagesFromFolder =>
          IF \E k \in DOMAIN Keys : RoleCount(Keys[k]) = 0
          THEN result' = "None" /\ image_dict' = image_dict
          ELSE /\ \A k \in DOMAIN Keys :
                    /\ Len(image_dict'[Keys[k]]) = RoleCount(Keys[k])
                    /\ {image_dict'[Keys[k]][i] : i \in DOMAIN image_dict'[Keys[k]]}
                          = {folder[i].img : i \in RoleFiles(Keys[k])}
               /\ result' =
                     IF RoleCount("window1") = RoleCount("window2")
                        /\ RoleCount("window1") = RoleCount("dark")
                     THEN "0" ELSE "-1"]_vars

\* a folder with unequal counts has been loaded over the stacks of a run:
\* -1 was returned and the stacks are those of the folder
C17_Witness ==
    /\ result = "-1"
    /\ RoleCount("window1") # RoleCount("dark")
    /\ \A k \in DOMAIN Keys : Len(image_dict[Keys[k]]) = RoleCount(Keys[k])
    /\ image_start_time_dict.window1 # <<>>

\* the folder holds exactly the image files save_measurement writes for the
\* stacks of the object, in some listing order
FolderSavedFromStacks ==
    /\ ~NothingToSave(image_dict)
    /\ {folder[i] : i \in {j \in DOMAIN folder : folder[j].ext = ".tif"
                                                   /\ folder[j].stem # "lifetime_image"}}
          = UNION {{File(Keys[k] \o "_", i - 1, ".tif", imwrite(image_dict[Keys[k]][i]), NoFile) :
                      i \in DOMAIN image_dict[Keys[k]]} : k \in DOMAIN Keys}

\* C18: a folder filled by save_measurement from the object's stacks and
\* reloaded with load_images_from_folder gives, for window1, window2 and
\* dark, the same images in the same order as saved, whatever the order of
\* the directory listing.
C18_SaveLoadKeepsOrder ==
    [][(LoadImagesFromFolder /\ FolderSavedFromStacks) =>
          \A k \in DOMAIN Keys :
              PixelsOf(image_dict'[Keys[k]]) = PixelsOf(image_dict[Keys[k]])]_vars

\* C16: a record that has been appended to rld_list keeps its params, its
\* image stacks and its lifetime map through every later operation of the
\* window.
C16_ArchivedRecordsImmutable ==
    [][\A i \in DOMAIN rld_list :
          /\ heap'[rld_list[i]].params = heap[rld_list[i]].params
          /\ heap'[rld_list[i]].image_dict = heap[rld_list[i]].image_dict
          /\ heap'[rld_list[i]].average_lifetime = heap[rld_list[i]].average_lifetime]_vars

\* C20: every delay_window1_us, delay_window2_us and pulse_width_us from
\* which a settings command is built is a multiple of 0.0625 us, whether the
\* value was typed into the GUI, loaded from a settings file and applied to
\* the GUI, or set on the object directly.
C20_CommandValuesOnGrid ==
    [][(ImageTau /\ ~NotReady) =>
          \A f \in FloatFields : OnGrid(heap'[rld'].params[f])]_vars

\* the image is the demosaiced form of the raw frame: three colour planes
\* in place of the one mosaic plane, of the same exposure
Demosaiced(raw, img) ==
    /\ raw.fmt = "raw" /\ img.fmt = "rgb"
    /\ Len(img.px) = 3 * Len(raw.px)
    /\ img.ts = raw.ts

\* C21: in a run on a colour sensor every image of the three stacks is
\* demosaiced after the capture loop has ended (stop_acquisition was called)
\* and before calculate_average_lifetime runs, so the lifetime map is
\* computed from the demosaiced stacks; on a monochrome sensor the stacks
\* reach the lifetime computation unchanged.
C21_DemosaicBeforeLifetime ==
    [][(pc = "post" /\ pc' = "idle") =>
          /\ hw_log[Len(hw_log)].op = "stop_acquisition"
          /\ \A k \in DOMAIN Keys :
                /\ Len(image_dict'[Keys[k]]) = Len(image_dict[Keys[k]])
                /\ \A i \in DOMAIN image_dict[Keys[k]] :
                      IF is_color
                      THEN Demosaiced(image_dict[Keys[k]][i], image_dict'[Keys[k]][i])
                      ELSE image_dict'[Keys[k]][i] = image_dict[Keys[k]][i]
          /\ result' = "None" =>
                /\ average_lifetime' = SomeMap(LifetimeOf(params, image_dict'))
                /\ Len(average_lifetime'.v.a) = Len(image_dict'.window1[1].px)]_vars

\* a run on a colour sensor has completed with MaxSets sets: the stacks hold
\* colour images and the lifetime map has a value per colour sample
C21_Witness ==
    /\ is_color /\ pc = "idle" /\ result = "None"
    /\ hw_log # <<>> /\ hw_log[Len(hw_log)].op = "stop_acquisition"
    /\ Len(image_dict.window1) = MaxSets
    /\ \A k \in DOMAIN Keys : \A i \in DOMAIN image_dict[Keys[k]] :
          image_dict[Keys[k]][i].fmt = "rgb"
    /\ average_lifetime.some /\ Len(average_lifetime.v.a) = 3

\* the sum of pixel i over the first n frames of a stack
RECURSIVE SumOfPixel(_, _, _)
SumOfPixel(stack, i, n) ==
    IF n = 0 THEN 0 ELSE SumOfPixel(stack, i, n - 1) + stack[n].px[i]

\* mean(stack) - mean(dark) per pixel, each mean over the frames of its own
\* stack
MeanMinusDark(stack, dark) ==
    Arr([i \in DOMAIN stack[1].px |->
            FSub(Fin(SumOfPixel(stack, i, Len(stack)), Len(stack)),
                 Fin(SumOfPixel(dark, i, Len(dark)), Len(dark)))])

AllStacksNonEmpty == \A k \in DOMAIN Keys : image_dict[Keys[k]] # <<>>

UnequalStacks ==
    \/ Len(image_dict.window1) # Len(image_dict.dark)
    \/ Len(image_dict.window2) # Len(image_dict.dark)

\* C22: calculate_average_lifetime on non-empty stacks, of equal or unequal
\* length, raises nothing and stores calculate_lifetime(delta_t, w1, w2) with
\* w1 = mean(window1) - mean(dark), w2 = mean(window2) - mean(dark) and
\* delta_t = delay_window2_us - delay_window1_us, each mean taken over the
\* frames of its own stack.
C22_IndependentMeans ==
    [][(CalculateAverageLifetime /\ AllStacksNonEmpty) =>
          /\ result' = "None"
          /\ average_lifetime' =
                SomeMap(calculate_lifetime(
                    params.delay_window2_us - params.delay_window1_us,
                    MeanMinusDark(image_dict.window1, image_dict.dark),
                    MeanMinusDark(image_dict.window2, image_dict.dark)))]_vars

\* a lifetime map with a finite value has been computed from stacks of
\* unequal length (two window1 frames, one dark frame)
C22_Witness ==
    /\ result = "None" /\ average_lifetime.some
    /\ AllStacksNonEmpty /\ UnequalStacks
    /\ Len(image_dict.window1) = 2 /\ Len(image_dict.dark) = 1
    /\ IsFinite(average_lifetime.v.a[1])
    /\ average_lifetime.v.a[1] =
          calculate_lifetime(DeltaT(params),
                             MeanMinusDark(image_dict.window1, image_dict.dark),
                             MeanMinusDark(image_dict.window2, image_dict.dark)).a[1]

\* the lifetime map of the record is the one its params and stacks give
MapIsCurrent(r) ==
    /\ ~LifetimeRaises(r.image_dict)
    /\ r.average_lifetime.v = LifetimeOf(r.params, r.image_dict)

\* C23: every RLD record of the window that holds a lifetime map holds the
\* map that the lifetime computation gives for the record's current params
\* and current image stacks, after any sequence of measurements, loads and
\* parameter updates.
C23_LifetimeMapIsCurrent ==
    \A i \in DOMAIN heap : heap[i].average_lifetime.some => MapIsCurrent(heap[i])

\* the file read has the legacy section and not the current one
LegacySchemaFile ==
    /\ config_file.kind = "parsed"
    /\ "Settings" \in config_file.sections
    /\ "ImagingParameters" \notin config_file.sections

\* the seven parameters a legacy file names
SevenLegacy == Fields \ {"delay_window1_us"}

LegacyKeyAbsent == \E f \in SevenLegacy : config_file.vals[f].t = "absent"
LegacyKeyNotInteger == \E f \in SevenLegacy : config_file.vals[f].t \in {"float", "junk"}

\* a successful legacy parse: delay_window1_us is 2.5 us and each of the
\* seven other fields is the integer of its legacy key (in ticks for the two
\* float fields)
LegacySuccess ==
    /\ 2 * params'.delay_window1_us = 5 * TicksPerUs
    /\ \A f \in SevenLegacy :
          /\ config_file.vals[f].t = "int"
          /\ params'[f] = IF f \in FloatFields
                          THEN config_file.vals[f].v * TicksPerUs
                          ELSE config_file.vals[f].v

HandlesAddedController ==
    /\ OnUsbEvent
    /\ Head(events).action = "added" /\ Head(events).type = "controller"
    /\ serial_connection = "None"

\* C24: when on_usb_event handles an "added" controller signal and calls
\* connect_serial, the device the signal was emitted for is already an entry
\* of the watcher's controllers and is already counted in
\* number_of_controllers, however the monitor thread and the GUI thread
\* interleave.
C24_RegistryUpdatedBeforeHandler ==
    [][HandlesAddedController =>
          /\ \E d \in usb_watcher.controllers : d.id = Head(events).dev
          /\ usb_watcher.number_of_controllers > 0
          /\ usb_watcher.number_of_controllers
                >= Cardinality(usb_watcher.controllers)]_vars

\* C26: once USBWatcher() is constructed and no callback is in progress,
\* number_of_controllers is the number of entries of controllers,
\* number_of_cameras the number of entries of cameras, and neither counter
\* is negative.
C26_CountersMatchRegistries ==
    (pc \in {"start", "open_device", "idle"} /\ monitor.cb = <<>>) =>
        /\ usb_watcher.number_of_controllers = Cardinality(usb_watcher.controllers)
        /\ usb_watcher.number_of_cameras = Cardinality(usb_watcher.cameras)
        /\ usb_watcher.number_of_controllers >= 0
        /\ usb_watcher.number_of_cameras >= 0

=============================================================================
